---------------------------- MODULE Spec2Model ----------------------------
(***************************************************************************)
(* Subscription-gated group access bot (src/bot.py).                       *)
(*                                                                         *)
(* Time is counted in whole minutes from the start of the run.  A          *)
(* datetime.timedelta(minutes=n) is the integer n.  The Subscription       *)
(* Store (db.py) and the payment webhook handler are not part of bot.py;   *)
(* they are modelled from the persistence interface and the handler        *)
(* contract of the design document.                                        *)
(***************************************************************************)
EXTENDS Integers, Sequences, FiniteSets, TLC

(***************************************************************************)
(* Bounds of the model.                                                    *)
(***************************************************************************)
\* the clock stops advancing when it reaches MaxTime minutes
MaxTime == 30
\* one step of the clock, in minutes
TickMinutes == 15
\* the minute of the UTC day at which the run starts (22:40)
RunStart == 1360

\* chat identities (update.effective_chat.id)
Chats == {1, 2}
\* payment references handed to the gateway
Refs == {"R1", "R2"}
\* update.effective_chat.type
ChatTypes == {"private", "group", "supergroup", "channel"}
\* update.message.text
Texts == {"Join Private Group", "Subscription Status", "hello"}
\* status field of a gateway callback
Statuses == {"success", "failed", "abandoned"}

\* inputs of initiate_payment
Amounts == {150, 15000}
Emails == {"ada@example.com", "bo@example.com"}
Usernames == {"ada", "bo"}

\* Python's None, where a record may stand
None == [absent |-> TRUE]

(***************************************************************************)
(* subscription_plans: the static plan catalog.                            *)
(***************************************************************************)
\* the catalog with the duration of "1 Hour" copied from the line above it
subscription_plans_slip ==
    [p \in {"15 Minutes", "30 Minutes", "1 Hour"} |->
        CASE p = "15 Minutes" -> [duration |-> 15, price |-> 15000]
          [] p = "30 Minutes" -> [duration |-> 30, price |-> 25000]
          [] p = "1 Hour"     -> [duration |-> 30, price |-> 95000]]

subscription_plans ==
    [p \in {"15 Minutes", "30 Minutes", "1 Hour"} |->
        CASE p = "15 Minutes" -> [duration |-> 15, price |-> 15000]
          [] p = "30 Minutes" -> [duration |-> 30, price |-> 25000]
          [] p = "1 Hour"     -> [duration |-> 60, price |-> 95000]]

PlanNames == DOMAIN subscription_plans
\* plan names a callback's metadata may carry: the catalog and a stranger
CallbackPlans == PlanNames \cup {"2 Hours"}

VARIABLES
    now,                    \* the wall clock, in minutes
    store,                  \* the Subscription Store: a set of records
    members,                \* chat identities that are in the private group
    delivered,              \* per reference: the payloads confirmed for it
    pc,                     \* check_subscription_expiry: where the job is
    expired_subscriptions,  \* check_subscription_expiry: the listed records
    idx,                    \* check_subscription_expiry: loop position
    prompted,               \* chats sent the Renew prompt by this sweep
    revoked,                \* chats banned from the group by this sweep
    removed,                \* chats whose records this sweep took out
    sendFailed,             \* chats whose send_message raised in this sweep
    banFailed,              \* chats whose ban_chat_member raised in this sweep
    notified,               \* records of the store sent the Renew prompt
    ev                      \* the operation that ran last, with its inputs

vars == <<now, store, members, delivered, pc, expired_subscriptions, idx,
          prompted, revoked, removed, sendFailed, banFailed, notified, ev>>

sweepVars == <<pc, expired_subscriptions, idx, prompted, revoked, removed,
               sendFailed, banFailed>>

(***************************************************************************)
(* The Subscription Store (db.py).                                         *)
(***************************************************************************)
Record(c, p, t, d) ==
    [telegram_chat_id |-> c, subscription_type |-> p,
     start_date |-> t, end_date |-> t + d]

RecordsOf(s, c) == {r \in s : r.telegram_chat_id = c}

get_user_subscription(s, c) ==
    IF RecordsOf(s, c) = {} THEN None ELSE CHOOSE r \in RecordsOf(s, c) : TRUE

\* an insert that does not replace the chat's earlier record
upsert_subscription_insert(s, rec) == s \cup {rec}

upsert_subscription(s, rec) ==
    {r \in s : r.telegram_chat_id # rec.telegram_chat_id} \cup {rec}

remove_subscription(s, c) == {r \in s : r.telegram_chat_id # c}

get_expired_subscriptions(s, t) == {r \in s : r.end_date <= t}

\* the orders in which a query may return the rows of a set
Orderings(S) ==
    {q \in [1..Cardinality(S) -> S] :
        \A i, j \in 1..Cardinality(S) : i # j => q[i] # q[j]}

ChatsOf(q) == {q[i].telegram_chat_id : i \in DOMAIN q}

(***************************************************************************)
(* The clock and the chat platform.                                        *)
(***************************************************************************)
Tick ==
    /\ now + TickMinutes <= MaxTime
    /\ now' = now + TickMinutes
    /\ ev' = [op |-> "tick"]
    /\ UNCHANGED <<store, members, delivered, notified>>
    /\ UNCHANGED sweepVars

\* a subscriber follows the invite and enters the private group
UserJoins(c) ==
    /\ c \notin members
    /\ RecordsOf(store, c) # {}
    /\ members' = members \cup {c}
    /\ ev' = [op |-> "join", chat |-> c]
    /\ UNCHANGED <<now, store, delivered, notified>>
    /\ UNCHANGED sweepVars

(***************************************************************************)
(* The payment webhook handler.                                            *)
(***************************************************************************)
\* a handler that adds the plan's duration to the end of the record the chat
\* already has
payment_webhook_extend(s, c, p, status, authentic, t) ==
    IF authentic /\ status = "success" /\ p \in PlanNames
    THEN IF RecordsOf(s, c) = {}
         THEN upsert_subscription(s, Record(c, p, t, subscription_plans[p].duration))
         ELSE upsert_subscription(s,
                [telegram_chat_id |-> c, subscription_type |-> p,
                 start_date |-> get_user_subscription(s, c).start_date,
                 end_date |-> get_user_subscription(s, c).end_date
                                + subscription_plans[p].duration])
    ELSE s

payment_webhook(s, c, p, status, authentic, t) ==
    IF authentic /\ status = "success" /\ p \in PlanNames
    THEN upsert_subscription(s, Record(c, p, t, subscription_plans[p].duration))
    ELSE s

Webhook(ref, c, p, status, authentic) ==
    /\ delivered[ref] \subseteq {[chat |-> c, plan |-> p]}
    /\ store' = payment_webhook(store, c, p, status, authentic, now)
    /\ delivered' =
         IF authentic /\ status = "success" /\ p \in PlanNames
         THEN [delivered EXCEPT ![ref] = {[chat |-> c, plan |-> p]}]
         ELSE delivered
    /\ ev' = [op |-> "webhook", reference |-> ref, chat |-> c, plan |-> p,
              status |-> status, authentic |-> authentic,
              again |-> delivered[ref] # {},
              replaced |-> RecordsOf(store, c) # {}]
    /\ notified' =
         IF authentic /\ status = "success" /\ p \in PlanNames
         THEN {r \in notified : r.telegram_chat_id # c}
         ELSE notified
    /\ UNCHANGED <<now, members>>
    /\ UNCHANGED sweepVars

(***************************************************************************)
(* check_subscription_expiry: the recurring sweep.  The job suspends at    *)
(* each await, so each call to the chat platform is a step of its own.     *)
(***************************************************************************)
Current == expired_subscriptions[idx].telegram_chat_id

\* get_expired_subscriptions(), then the first iteration up to its await
SweepList ==
    /\ pc \in {"idle", "done", "raised"}
    /\ \E q \in Orderings(get_expired_subscriptions(store, now)) :
         /\ expired_subscriptions' = q
         /\ pc' = IF q = <<>> THEN "done" ELSE "send"
    /\ idx' = 1
    /\ prompted' = {}
    /\ revoked' = {}
    /\ removed' = {}
    /\ sendFailed' = {}
    /\ banFailed' = {}
    /\ ev' = [op |-> "list"]
    /\ UNCHANGED <<now, store, members, delivered, notified>>

\* str(n): the decimal digits of a natural number
RECURSIVE str(_)
str(n) ==
    IF n < 10
    THEN <<CASE n = 0 -> "0" [] n = 1 -> "1" [] n = 2 -> "2" [] n = 3 -> "3"
             [] n = 4 -> "4" [] n = 5 -> "5" [] n = 6 -> "6" [] n = 7 -> "7"
             [] n = 8 -> "8" [] n = 9 -> "9">>
    ELSE str(n \div 10) \o str(n % 10)

\* f"renew|{telegram_chat_id}".  A callback-data string is the sequence of
\* its parts: a tag, the separator and the characters of the argument; a
\* plan key is a single part.
renew_callback_data(c) == <<"renew", "|">> \o str(c)

\* the loop with remove_subscription moved up to the notification
SweepSend_remove(ok) ==
    /\ pc = "send"
    /\ IF ok
       THEN /\ prompted' = prompted \cup {Current}
            /\ store' = remove_subscription(store, Current)
            /\ removed' = removed \cup
                    {c \in Chats : RecordsOf(store', c) # RecordsOf(store, c)}
            /\ pc' = "ban"
            /\ UNCHANGED sendFailed
       ELSE /\ sendFailed' = sendFailed \cup {Current}
            /\ pc' = "raised"
            /\ UNCHANGED <<prompted, store, removed>>
    /\ notified' = notified \cap store'
    /\ ev' = [op |-> "send_message", chat |-> Current, ok |-> ok,
              callback_data |-> renew_callback_data(Current),
              repeat |-> expired_subscriptions[idx] \in notified]
    /\ UNCHANGED <<now, members, delivered, expired_subscriptions, idx,
                   revoked, banFailed>>

\* await bot_instance.send_message(...): delivered, or the call raises and
\* the exception leaves the job
SweepSend(ok) ==
    /\ pc = "send"
    /\ IF ok
       THEN /\ prompted' = prompted \cup {Current}
            /\ notified' = notified \cup ({expired_subscriptions[idx]} \cap store)
            /\ pc' = "ban"
            /\ UNCHANGED sendFailed
       ELSE /\ sendFailed' = sendFailed \cup {Current}
            /\ pc' = "raised"
            /\ UNCHANGED <<prompted, notified>>
    /\ ev' = [op |-> "send_message", chat |-> Current, ok |-> ok,
              callback_data |-> renew_callback_data(Current),
              repeat |-> expired_subscriptions[idx] \in notified]
    /\ UNCHANGED <<now, store, members, delivered, expired_subscriptions, idx,
                   revoked, removed, banFailed>>

\* await bot_instance.ban_chat_member(...)
SweepBan(ok) ==
    /\ pc = "ban"
    /\ IF ok
       THEN /\ members' = members \ {Current}
            /\ revoked' = revoked \cup {Current}
            /\ pc' = "remove"
            /\ UNCHANGED banFailed
       ELSE /\ banFailed' = banFailed \cup {Current}
            /\ pc' = "raised"
            /\ UNCHANGED <<members, revoked>>
    /\ ev' = [op |-> "ban_chat_member", chat |-> Current, ok |-> ok]
    /\ UNCHANGED <<now, store, delivered, expired_subscriptions, idx,
                   prompted, removed, sendFailed, notified>>

\* the removal keyed by the first listed record instead of the current one
SweepRemove_first ==
    /\ pc = "remove"
    /\ store' = remove_subscription(store,
                                    expired_subscriptions[1].telegram_chat_id)
    /\ removed' = removed \cup
                    {c \in Chats : RecordsOf(store', c) # RecordsOf(store, c)}
    /\ IF idx < Len(expired_subscriptions)
       THEN /\ idx' = idx + 1
            /\ pc' = "send"
       ELSE /\ idx' = idx
            /\ pc' = "done"
    /\ ev' = [op |-> "remove_subscription", chat |-> Current,
              deleted |-> store \ store']
    /\ notified' = notified \cap store'
    /\ UNCHANGED <<now, members, delivered, expired_subscriptions,
                   prompted, revoked, sendFailed, banFailed>>

\* remove_subscription(telegram_chat_id), then on to the next record
SweepRemove ==
    /\ pc = "remove"
    /\ store' = remove_subscription(store, Current)
    /\ removed' = removed \cup
                    {c \in Chats : RecordsOf(store', c) # RecordsOf(store, c)}
    /\ IF idx < Len(expired_subscriptions)
       THEN /\ idx' = idx + 1
            /\ pc' = "send"
       ELSE /\ idx' = idx
            /\ pc' = "done"
    /\ ev' = [op |-> "remove_subscription", chat |-> Current,
              deleted |-> store \ store']
    /\ notified' = notified \cap store'
    /\ UNCHANGED <<now, members, delivered, expired_subscriptions,
                   prompted, revoked, sendFailed, banFailed>>

(***************************************************************************)
(* initiate_payment: the checkout-initialization request.                  *)
(***************************************************************************)
\* the request body with the amount left in the major unit
initiate_payment_data_unscaled(amount, email, reference, telegram_chat_id, subscription_type, username) ==
    [amount |-> amount,
     email |-> email,
     reference |-> reference,
     metadata |-> [telegram_chat_id |-> telegram_chat_id,
                   payment_reference |-> reference,
                   subscription_type |-> subscription_type,
                   username |-> username]]

initiate_payment_data(amount, email, reference, telegram_chat_id, subscription_type, username) ==
    [amount |-> amount * 100,
     email |-> email,
     reference |-> reference,
     metadata |-> [telegram_chat_id |-> telegram_chat_id,
                   payment_reference |-> reference,
                   subscription_type |-> subscription_type,
                   username |-> username]]

\* what the gateway answers to POST /transaction/initialize
AuthBody == [json |-> TRUE, status |-> TRUE,
             authorization_url |-> "https://checkout.paystack.com/x"]
ErrorBody == [json |-> TRUE, status |-> FALSE, message |-> "error"]
NotJson == [json |-> FALSE]

\* the outcomes of requests.post: no connection, the gateway's 200 with an
\* authorization URL, the gateway's error payload under a 4xx or 5xx code,
\* a proxy's 502 page that is not JSON
Responses ==
    {[net |-> "error", status_code |-> 0, body |-> NotJson],
     [net |-> "ok", status_code |-> 200, body |-> AuthBody],
     [net |-> "ok", status_code |-> 400, body |-> ErrorBody],
     [net |-> "ok", status_code |-> 401, body |-> ErrorBody],
     [net |-> "ok", status_code |-> 500, body |-> ErrorBody],
     [net |-> "ok", status_code |-> 502, body |-> NotJson]}

\* a version that swallows every failure and answers with a checkout link
initiate_payment_swallow(amount, email, reference, telegram_chat_id, subscription_type, username, response) ==
    IF response.net = "ok" /\ response.body.json /\ response.body.status
    THEN [kind |-> "return", value |-> response.body]
    ELSE [kind |-> "return", value |-> AuthBody]

\* requests.post raises when there is no connection; response.json() raises
\* when the body is not JSON; otherwise the parsed body is returned,
\* whatever the status code
initiate_payment(amount, email, reference, telegram_chat_id, subscription_type, username, response) ==
    IF response.net = "error"
    THEN [kind |-> "raise", value |-> [exception |-> "ConnectionError"]]
    ELSE IF ~response.body.json
    THEN [kind |-> "raise", value |-> [exception |-> "JSONDecodeError"]]
    ELSE [kind |-> "return", value |-> response.body]

InitiatePayment(amount, email, reference, c, p, username, response) ==
    /\ ev' = [op |-> "initiate_payment", amount |-> amount, email |-> email,
              reference |-> reference, chat |-> c, plan |-> p,
              username |-> username, response |-> response,
              request |-> initiate_payment_data(amount, email, reference,
                                                c, p, username),
              result |-> initiate_payment(amount, email, reference, c, p,
                                          username, response)]
    /\ UNCHANGED <<now, store, members, delivered, notified>>
    /\ UNCHANGED sweepVars

(***************************************************************************)
(* The command and message handlers.  Each returns the messages it got     *)
(* delivered; ok tells whether the chat platform accepts its send.         *)
(***************************************************************************)
\* Africa/Lagos is one hour ahead of UTC all year
LagosOffsetMinutes == 60
MinutesPerHour == 60
MinutesPerDay == 1440

\* the fields of the instant read on a UTC clock: astimezone left out
DisplayFields_utc(t) ==
    [date |-> t \div MinutesPerDay,
     hour |-> (t % MinutesPerDay) \div MinutesPerHour,
     minute |-> t % MinutesPerHour]

\* expiry_date.astimezone(pytz.timezone("Africa/Lagos")), then its
\* date(), hour and minute; t is in minutes from the UTC midnight before
\* the run
DisplayFields(t) ==
    [date |-> (t + LagosOffsetMinutes) \div MinutesPerDay,
     hour |-> ((t + LagosOffsetMinutes) % MinutesPerDay) \div MinutesPerHour,
     minute |-> (t + LagosOffsetMinutes) % MinutesPerHour]

start(chat_type, c, ok) ==
    IF chat_type # "private" THEN <<>>
    ELSE IF ok
    THEN <<[chat_id |-> c, text |-> "welcome",
            keyboard |-> <<"Join Private Group", "Subscription Status">>]>>
    ELSE <<>>

\* the last button's callback data spelled as on its label
plans_label(chat_type, c, ok) ==
    IF chat_type # "private" THEN <<>>
    ELSE IF ok
    THEN <<[chat_id |-> c, text |-> "Choose a subscription plan:",
            keyboard |-> <<"15 Minutes", "30 Minutes", "1 hour">>]>>
    ELSE <<>>

plans(chat_type, c, ok) ==
    IF chat_type # "private" THEN <<>>
    ELSE IF ok
    THEN <<[chat_id |-> c, text |-> "Choose a subscription plan:",
            keyboard |-> <<"15 Minutes", "30 Minutes", "1 Hour">>]>>
    ELSE <<>>

check_subscription_status(s, c, ok) ==
    IF ~ok THEN <<>>
    ELSE IF get_user_subscription(s, c) = None
    THEN <<[chat_id |-> c, text |-> "You do not have an active subscription"]>>
    ELSE <<[chat_id |-> c, text |-> "Your subscription expires on",
            fields |-> DisplayFields(RunStart
                                       + get_user_subscription(s, c).end_date)]>>

\* handle_message with no answer to a text it does not know
handle_message_silent(s, chat_type, c, text, ok) ==
    IF chat_type # "private" THEN <<>>
    ELSE IF text = "Join Private Group" THEN plans(chat_type, c, ok)
    ELSE IF text = "Subscription Status" THEN check_subscription_status(s, c, ok)
    ELSE <<>>

\* handle_message without its check of the chat type
handle_message_anywhere(s, chat_type, c, text, ok) ==
    IF text = "Join Private Group" THEN plans(chat_type, c, ok)
    ELSE IF text = "Subscription Status" THEN check_subscription_status(s, c, ok)
    ELSE IF ok THEN <<[chat_id |-> c, text |-> "You selected an option"]>>
    ELSE <<>>

handle_message(s, chat_type, c, text, ok) ==
    IF chat_type # "private" THEN <<>>
    ELSE IF text = "Join Private Group" THEN plans(chat_type, c, ok)
    ELSE IF text = "Subscription Status" THEN check_subscription_status(s, c, ok)
    ELSE IF ok THEN <<[chat_id |-> c, text |-> "You selected an option"]>>
    ELSE <<>>

Start(chat_type, c, ok) ==
    /\ ev' = [op |-> "start", type |-> chat_type, chat |-> c, ok |-> ok,
              msgs |-> start(chat_type, c, ok)]
    /\ UNCHANGED <<now, store, members, delivered, notified>>
    /\ UNCHANGED sweepVars

Plans(chat_type, c, ok) ==
    /\ ev' = [op |-> "plans", type |-> chat_type, chat |-> c, ok |-> ok,
              msgs |-> plans(chat_type, c, ok)]
    /\ UNCHANGED <<now, store, members, delivered, notified>>
    /\ UNCHANGED sweepVars

HandleMessage(chat_type, c, text, ok) ==
    /\ ev' = [op |-> "handle_message", type |-> chat_type, chat |-> c,
              text |-> text, ok |-> ok,
              msgs |-> handle_message(store, chat_type, c, text, ok)]
    /\ UNCHANGED <<now, store, members, delivered, notified>>
    /\ UNCHANGED sweepVars

(***************************************************************************)
(* The system.                                                             *)
(***************************************************************************)
Init ==
    /\ now = 0
    /\ store = {}
    /\ members = {}
    /\ delivered = [r \in Refs |-> {}]
    /\ pc = "idle"
    /\ expired_subscriptions = <<>>
    /\ idx = 1
    /\ prompted = {}
    /\ revoked = {}
    /\ removed = {}
    /\ sendFailed = {}
    /\ banFailed = {}
    /\ notified = {}
    /\ ev = [op |-> "init"]

Next ==
    \/ Tick
    \/ \E c \in Chats : UserJoins(c)
    \/ \E ref \in Refs, c \in Chats, p \in PlanNames :
          Webhook(ref, c, p, "success", TRUE)
    \/ SweepList
    \/ \E ok \in BOOLEAN : SweepSend(ok)
    \/ \E ok \in BOOLEAN : SweepBan(ok)
    \/ SweepRemove

Spec == Init /\ [][Next]_vars

\* the webhook handler under every callback, with the clock
NextWebhook ==
    \/ Tick
    \/ \E ref \in Refs, c \in Chats, p \in CallbackPlans, s \in Statuses,
          a \in BOOLEAN : Webhook(ref, c, p, s, a)

SpecWebhook == Init /\ [][NextWebhook]_vars

\* the command and message handlers over the stores that payments build
NextRouter ==
    \/ Tick
    \/ \E c \in Chats : UserJoins(c)
    \/ \E ref \in Refs, c \in Chats, p \in PlanNames :
          Webhook(ref, c, p, "success", TRUE)
    \/ \E ty \in ChatTypes, c \in Chats, ok \in BOOLEAN : Start(ty, c, ok)
    \/ \E ty \in ChatTypes, c \in Chats, ok \in BOOLEAN : Plans(ty, c, ok)
    \/ \E ty \in ChatTypes, c \in Chats, text \in Texts, ok \in BOOLEAN :
          HandleMessage(ty, c, text, ok)

SpecRouter == Init /\ [][NextRouter]_vars

\* initiate_payment under every input and gateway answer, next to payments
\* that are confirmed
NextPay ==
    \/ \E ref \in Refs, c \in Chats :
          Webhook(ref, c, "15 Minutes", "success", TRUE)
    \/ \E a \in Amounts, e \in Emails, ref \in Refs, c \in Chats,
          p \in PlanNames, u \in Usernames, r \in Responses :
          InitiatePayment(a, e, ref, c, p, u, r)

SpecPay == Init /\ [][NextPay]_vars

(***************************************************************************)
(* The callback handlers that __main__ registers, each with the pattern    *)
(* that re.match tries on a button's callback data.                        *)
(***************************************************************************)
CallbackHandlers == {"select_plan", "cancel_payment", "handle_renew"}

HasPrefix(d, q) == Len(d) >= Len(q) /\ SubSeq(d, 1, Len(q)) = q

Matches(h, d) ==
    CASE h = "select_plan" ->
           d \in {<<"15 Minutes">>, <<"30 Minutes">>, <<"1 Hour">>}
      [] h = "cancel_payment" -> HasPrefix(d, <<"cancel", "|">>)
      [] h = "handle_renew" -> HasPrefix(d, <<"renew", "|">>)

\* the sweep next to the plans command: every button the bot emits
NextButtons ==
    \/ Next
    \/ \E c \in Chats, ok \in BOOLEAN : Plans("private", c, ok)

SpecButtons == Init /\ [][NextButtons]_vars

\* the job queue runs the sweep again and again, and every call the sweep
\* awaits comes back
SpecFair ==
    /\ Init
    /\ [][Next]_vars
    /\ WF_vars(SweepList)
    /\ WF_vars(\E ok \in BOOLEAN : SweepSend(ok))
    /\ WF_vars(\E ok \in BOOLEAN : SweepBan(ok))
    /\ WF_vars(SweepRemove)

(***************************************************************************)
(* The expiry sweep.                                                       *)
(***************************************************************************)
Listed == {expired_subscriptions[i] : i \in DOMAIN expired_subscriptions}

\* C1: a sweep lists exactly the records with end_date <= now; while it
\* runs it prompts, bans and removes only chats it listed; and when it
\* returns, every listed chat has been prompted, banned and had its record
\* removed, so that the chats it did not list were left alone.
C1_SweepRemovesExactlyExpired ==
    /\ ev.op = "list" => Listed = {r \in store : r.end_date <= now}
    /\ (prompted \cup revoked \cup removed) \subseteq ChatsOf(expired_subscriptions)
    /\ pc = "done" =>
         /\ prompted = ChatsOf(expired_subscriptions)
         /\ revoked = ChatsOf(expired_subscriptions)
         /\ removed = ChatsOf(expired_subscriptions)

\* a sweep has returned after removing one chat's record while the other
\* chat holds a record that had not expired when the sweep listed
C1_Witness ==
    /\ pc = "done"
    /\ Len(expired_subscriptions) = 1
    /\ removed = ChatsOf(expired_subscriptions)
    /\ \E r \in store :
         /\ r.telegram_chat_id \notin removed
         /\ r.start_date < expired_subscriptions[1].end_date
         /\ r.end_date > now

\* C2: when ban_chat_member fails for a record, the sweep still deletes
\* that record and goes on to the other records it listed: once the job is
\* over, every listed chat has had its record removed.
C2_BanFailureDoesNotAbort ==
    (pc \in {"done", "raised"} /\ banFailed # {} /\ sendFailed = {}) =>
        removed = ChatsOf(expired_subscriptions)

\* C3: when send_message fails for a record, the sweep still bans that user
\* and deletes that record.
C3_SendFailureStillRevokes ==
    (pc \in {"done", "raised"} /\ sendFailed # {} /\ banFailed = {}) =>
        /\ sendFailed \subseteq revoked
        /\ sendFailed \subseteq removed

\* C4: every record the sweeper deletes has end_date <= now at the moment
\* it is deleted, whatever a renewal did between the listing and the
\* deletion.
C4_SweepDeletesOnlyExpired ==
    ev.op = "remove_subscription" =>
        \A r \in ev.deleted : r.end_date <= now

\* C12: within a sweep the prompt comes first, then the revocation, then
\* the deletion: every chat the sweep has banned it had prompted, every
\* chat whose record it has removed it had banned, and the record it is
\* about to ban for or to remove is that of a chat it has prompted, or
\* banned.
C12_PromptThenBanThenDelete ==
    /\ revoked \subseteq prompted
    /\ removed \subseteq revoked
    /\ pc = "ban" => Current \in prompted /\ Current \notin revoked
    /\ pc = "remove" => Current \in revoked

\* a sweep has gone through two records
C12_Witness ==
    /\ pc = "done"
    /\ Len(expired_subscriptions) = 2
    /\ removed = Chats
    /\ revoked = Chats
    /\ prompted = Chats

Expired(c) == \E r \in RecordsOf(store, c) : r.end_date <= now

\* C15: with the sweep run again and again, every record whose end_date <=
\* now is eventually gone from the store and its user eventually out of
\* the group, also when the notification or the revocation keeps failing.
C15_ExpiredEventuallyRemoved ==
    \A c \in Chats :
        /\ Expired(c) ~> ~Expired(c)
        /\ (Expired(c) /\ c \in members) ~> (c \notin members \/ ~Expired(c))

\* C16: the sweeper never bans a user whose record in the store has
\* end_date > now at the moment of the ban.
C16_BanOnlyExpired ==
    (ev.op = "ban_chat_member" /\ ev.ok) =>
        \A r \in RecordsOf(store, ev.chat) : r.end_date <= now

\* C17: no record is sent the expiry notification a second time, by the
\* same or by a later sweep.
C17_NotifiedAtMostOnce ==
    (ev.op = "send_message" /\ ev.ok) => ~ev.repeat

\* C18: the callback data of every button the bot emits is matched by the
\* pattern of exactly one registered callback handler, and the callback
\* data of the plan buttons are exactly the keys of subscription_plans.
C18_ButtonsMatchOneHandler ==
    /\ (ev.op = "plans" /\ ev.msgs # <<>>) =>
         /\ {ev.msgs[1].keyboard[i] : i \in DOMAIN ev.msgs[1].keyboard}
               = {"15 Minutes", "30 Minutes", "1 Hour"}
         /\ {ev.msgs[1].keyboard[i] : i \in DOMAIN ev.msgs[1].keyboard}
               = DOMAIN subscription_plans
         /\ Len(ev.msgs[1].keyboard) = 3
         /\ \A i \in DOMAIN ev.msgs[1].keyboard :
               Cardinality({h \in CallbackHandlers :
                              Matches(h, <<ev.msgs[1].keyboard[i]>>)}) = 1
    /\ ev.op = "send_message" =>
         /\ Cardinality({h \in CallbackHandlers :
                           Matches(h, ev.callback_data)}) = 1
         /\ Matches("handle_renew", ev.callback_data)

\* the plan buttons have been shown while a sweep that has sent a Renew
\* button is under way
C18_Witness ==
    /\ ev.op = "plans"
    /\ Len(ev.msgs) = 1
    /\ prompted # {}
    /\ pc = "ban"

(***************************************************************************)
(* The Subscription Store.                                                 *)
(***************************************************************************)
\* C7: the store never holds two records for one chat identity.
C7_OneRecordPerChat ==
    \A c \in Chats : Cardinality(RecordsOf(store, c)) <= 1

\* a renewal has just replaced the record the chat already had
C7_Witness ==
    /\ ev.op = "webhook"
    /\ ev.replaced
    /\ removed # {}
    /\ \E r \in RecordsOf(store, ev.chat) : r.start_date > 0
    /\ Cardinality(store) = 2

(***************************************************************************)
(* The payment webhook.                                                    *)
(***************************************************************************)
\* the span a plan's name states, in minutes
PlanMinutes(p) ==
    CASE p = "15 Minutes" -> 15
      [] p = "30 Minutes" -> 30
      [] p = "1 Hour"     -> 60

\* C5: after the webhook handler processes a callback with status
\* "success" for a plan of the catalog, the store holds a record for the
\* chat whose end_date is the confirmation time plus the plan's duration;
\* a callback with any other status leaves the store unchanged.
C5_ConfirmationSetsEndDate ==
    [][ev'.op = "webhook" =>
         /\ (ev'.status = "success" /\ ev'.authentic /\ ev'.plan \in PlanNames) =>
              \E r \in store' :
                 /\ r.telegram_chat_id = ev'.chat
                 /\ r.subscription_type = ev'.plan
                 /\ r.end_date = now + PlanMinutes(ev'.plan)
         /\ ev'.status # "success" => store' = store]_vars

\* a "1 Hour" payment has just been confirmed, later than the start
C5_Witness ==
    /\ ev.op = "webhook"
    /\ ev.status = "success"
    /\ ev.authentic
    /\ ev.plan = "1 Hour"
    /\ now > 0
    /\ \E r \in store : r.telegram_chat_id = ev.chat /\ r.end_date = now + 60

\* C6: after the same successful payload has been delivered again for its
\* reference, the chat has exactly one record, and that record's period is
\* one plan duration long and ends no later than one plan duration from
\* now.
C6_DuplicateDeliveryIsIdempotent ==
    (ev.op = "webhook" /\ ev.status = "success" /\ ev.authentic /\ ev.again) =>
        /\ Cardinality(RecordsOf(store, ev.chat)) = 1
        /\ \A r \in RecordsOf(store, ev.chat) :
              /\ r.end_date - r.start_date = PlanMinutes(ev.plan)
              /\ r.end_date <= now + PlanMinutes(ev.plan)

\* the payload has been delivered a second time, later than the first,
\* while the record of its first delivery was still in the store
C6_Witness ==
    /\ ev.op = "webhook"
    /\ ev.status = "success"
    /\ ev.authentic
    /\ ev.again
    /\ ev.replaced
    /\ \E r \in RecordsOf(store, ev.chat) : r.start_date > 0

(***************************************************************************)
(* The router.                                                             *)
(***************************************************************************)
\* C8: start, plans and any text message received in a chat that is not
\* private send nothing and leave the store as it was.
C8_GroupContextIsIgnored ==
    [][(ev'.op \in {"start", "plans", "handle_message"} /\ ev'.type # "private") =>
         /\ ev'.msgs = <<>>
         /\ store' = store]_vars

\* "Subscription Status" arrived in a group chat whose platform would have
\* accepted a reply, for a chat that holds a record
C8_Witness ==
    /\ ev.op = "handle_message"
    /\ ev.type = "group"
    /\ ev.text = "Subscription Status"
    /\ ev.ok
    /\ RecordsOf(store, ev.chat) # {}

\* C11: "Subscription Status" in a private chat, when the platform accepts
\* the reply, sends exactly one reply and leaves the store as it was: the
\* "no active subscription" message when the chat has no record, and
\* otherwise the date, hour and minute that a clock in the display
\* timezone (one hour ahead of UTC) shows at the record's end_date.
C11_StatusReportsEndDate ==
    [][(/\ ev'.op = "handle_message"
        /\ ev'.type = "private"
        /\ ev'.text = "Subscription Status"
        /\ ev'.ok) =>
         /\ store' = store
         /\ Len(ev'.msgs) = 1
         /\ ev'.msgs[1].chat_id = ev'.chat
         /\ IF RecordsOf(store, ev'.chat) = {}
            THEN ev'.msgs[1].text = "You do not have an active subscription"
            ELSE /\ ev'.msgs[1].text = "Your subscription expires on"
                 /\ \E r \in RecordsOf(store, ev'.chat) :
                       ev'.msgs[1].fields.date * 1440
                         + ev'.msgs[1].fields.hour * 60
                         + ev'.msgs[1].fields.minute
                           = RunStart + r.end_date + 60
                 /\ ev'.msgs[1].fields.hour \in 0..23
                 /\ ev'.msgs[1].fields.minute \in 0..59]_vars

\* the status of a record whose end falls after midnight in the display
\* timezone has been reported
C11_Witness ==
    /\ ev.op = "handle_message"
    /\ ev.type = "private"
    /\ ev.text = "Subscription Status"
    /\ ev.ok
    /\ Len(ev.msgs) = 1
    /\ RecordsOf(store, ev.chat) # {}
    /\ ev.msgs[1].text = "Your subscription expires on"
    /\ ev.msgs[1].fields.date = 1
    /\ ev.msgs[1].fields.hour = 0

\* C13: a text in a private chat that is neither "Join Private Group" nor
\* "Subscription Status" is answered, when the platform accepts the reply,
\* with exactly one guidance message, and neither the store nor the
\* membership of the group changes.
C13_UnknownTextGetsGuidance ==
    [][(/\ ev'.op = "handle_message"
        /\ ev'.type = "private"
        /\ ev'.text \notin {"Join Private Group", "Subscription Status"}
        /\ ev'.ok) =>
         /\ Len(ev'.msgs) = 1
         /\ ev'.msgs[1].chat_id = ev'.chat
         /\ ev'.msgs[1].text = "You selected an option"
         /\ store' = store
         /\ members' = members]_vars

\* "hello" has been answered in the private chat of a member of the group
\* who holds a record
C13_Witness ==
    /\ ev.op = "handle_message"
    /\ ev.type = "private"
    /\ ev.text = "hello"
    /\ ev.ok
    /\ Len(ev.msgs) = 1
    /\ ev.chat \in members
    /\ RecordsOf(store, ev.chat) # {}

(***************************************************************************)
(* The Payment Initiator.                                                  *)
(***************************************************************************)
Failed(response) ==
    response.net = "error" \/ response.status_code \notin 200..299

\* everything initiate_payment hands back when the gateway answers 2xx
SuccessfulResults ==
    {initiate_payment(a, e, ref, c, p, u, r) :
        a \in Amounts, e \in Emails, ref \in Refs, c \in Chats,
        p \in PlanNames, u \in Usernames, r \in {x \in Responses : ~Failed(x)}}

C10_RequestCarriesInputs ==
    ev.op = "initiate_payment" =>
        /\ ev.request.amount = ev.amount * 100
        /\ ev.request.email = ev.email
        /\ ev.request.reference = ev.reference
        /\ ev.request.metadata.telegram_chat_id = ev.chat
        /\ ev.request.metadata.subscription_type = ev.plan
        /\ ev.request.metadata.username = ev.username
        /\ ev.request.metadata.payment_reference = ev.reference
        /\ ev.request.metadata.payment_reference = ev.request.reference
        /\ DOMAIN ev.request.metadata =
             {"telegram_chat_id", "payment_reference", "subscription_type", "username"}

\* a request for 15000 has been built for chat 2
C10_Witness ==
    /\ ev.op = "initiate_payment"
    /\ ev.amount = 15000
    /\ ev.request.amount = 1500000
    /\ ev.chat = 2
    /\ ev.plan = "1 Hour"

=============================================================================
